---- MODULE Spec2Model ----
(***************************************************************************)
(* Heart-rate zone and metrics engine (class HRController,                  *)
(* HR_APP_v.7/heart-rate-workout-app/hr_controller.py).                     *)
(*                                                                          *)
(* The engine object is the state: zones, current_zone, resting_hr, max_hr  *)
(* and weight_kg.  Every method is one action.  The record `call` holds the *)
(* method last called with its arguments, `ret` the value it returned and   *)
(* `exc` the exception it ended with ("" when it returned).                 *)
(*                                                                          *)
(* Python computes the rounded quantities on IEEE-754 doubles.  The         *)
(* operators below compute the same integers with integer arithmetic only:  *)
(* the exact rational value decides every case but an exact tie (fraction   *)
(* one half), and at a tie the sign of the double's representation error    *)
(* decides whether round() sees the tie (and rounds half to even) or a      *)
(* value just beside it.                                                    *)
(***************************************************************************)
EXTENDS Integers, Sequences, FiniteSets, TLC

VARIABLES zones, current_zone, resting_hr, max_hr, weight_kg, call, ret, exc, bt, ant, app

vars ==
  <<zones, current_zone, resting_hr, max_hr, weight_kg, call, ret, exc,
    bt, ant, app>>

engine == <<zones, current_zone, resting_hr, max_hr, weight_kg>>

\* the sensor managers and the application that owns them and the engine
devices == <<bt, ant, app>>

\* a call made on the engine directly, outside the application
EngineOnly(A) == A /\ UNCHANGED devices

(***************************************************************************)
(* Bounds of the inputs.                                                    *)
(***************************************************************************)
AgeLo == 30
AgeHi == 31
RestLo == 59
RestHi == 61
\* supplied max_hr: LowMaxLo..RestHi (reserve <= 0 or tiny) and MaxLo..MaxHi
LowMaxLo == 58
MaxLo == 184
MaxHi == 191
\* heart rates: two far values, a band round resting_hr, a band over the zones
HrFarHi == 250
HrBandLo == 57
HrBandHi == 63
HrZoneLo == 119
HrZoneHi == 193
WeightLo == 69
WeightHi == 70
HrStride == 19
DurMax == 4
\* wattage alone: heart rates up to WattHrHi, above every zone
WattHrHi == 203
\* calories alone: durations 0, DurStep, ..., DurStep * DurCount minutes
DurStep == 7
DurCount == 4
\* recovery alone: durations 0, RecStep, ..., RecStep * RecCount minutes
RecStep == 10
RecCount == 4
RecHrStride == 3
\* zone distribution: lengths of the runs of equal samples
RunShort == 17
RunLong == 23
\* zone tables alone: supplied max_hr up to ReserveHi above resting_hr
ReserveHi == 30
\* the age at which the default max_hr, 220 - age, is 0
ZeroMaxAge == 220

Ages == AgeLo..AgeHi
RestingHRs == RestLo..RestHi
\* the optional argument max_hr: <<>> is None (absent), <<v>> a supplied value
MaxHRArgs == {<<>>, <<0>>} \cup {<<v>> : v \in (LowMaxLo..RestHi) \cup (MaxLo..MaxHi)}
HeartRates == {-1, 0, HrFarHi} \cup (HrBandLo..HrBandHi) \cup (HrZoneLo..HrZoneHi)
Weights == WeightLo..WeightHi
\* wattage, calories and recovery: every HrStride-th heart rate; minutes
CoarseHeartRates ==
  {-1, HrFarHi} \cup (HrBandLo..HrBandHi) \cup {h \in 0..HrFarHi : h % HrStride = 0}
Durations == 0..DurMax
AllAges == Ages \cup {ZeroMaxAge}
WattHeartRates == HeartRates \cup (HrZoneHi..WattHrHi)
CalDurations == {DurStep * i : i \in 0..DurCount}
RecDurations == {RecStep * i : i \in 0..RecCount}
RecHeartRates == {h \in HeartRates : h % RecHrStride = 0}
\* samples below, inside and above the zones of the usual profiles
DistHeartRates == {HrBandLo, HrZoneLo + HrStride, HrFarHi}
RunLengths == {0, 1, RunShort, RunLong}

Repeat(h, n) == [i \in 1..n |-> h]

\* hr_samples: up to two samples; two runs of equal samples, or three samples
ShortSamples ==
  {<<>>} \cup {<<h>> : h \in DistHeartRates}
         \cup {<<h1, h2>> : h1 \in DistHeartRates, h2 \in DistHeartRates}
RunSamples ==
  {Repeat(h1, a) \o Repeat(h2, b) :
     h1 \in DistHeartRates, h2 \in DistHeartRates,
     a \in RunLengths, b \in RunLengths}
  \cup {<<h1, h2, h3>> :
          h1 \in DistHeartRates, h2 \in DistHeartRates, h3 \in DistHeartRates}

(***************************************************************************)
(* Integer helpers.                                                         *)
(***************************************************************************)
Abs(x) == IF x < 0 THEN -x ELSE x

RECURSIVE TwoPow(_)
TwoPow(e) == IF e <= 0 THEN 1 ELSE 2 * TwoPow(e - 1)

\* floor(log2(x)) for an integer x >= 1
RECURSIVE Log2Floor(_)
Log2Floor(x) == IF x < 2 THEN 0 ELSE 1 + Log2Floor(x \div 2)

\* round(n2 / 2) when the double n2/2 is exact: Python 3 rounds half to even
RoundHalfEven2(n2) ==
  IF n2 % 2 = 0 THEN n2 \div 2
  ELSE LET fl == (n2 - 1) \div 2 IN IF fl % 2 = 0 THEN fl ELSE fl + 1

(***************************************************************************)
(* round(resting_hr + hr_reserve * 0.f) for f = f10/10 in {5,6,7,8,9}.      *)
(* t is the exact value in tenths.  Off a tie the double is far closer to   *)
(* the exact value than to the tie, so the nearest integer is returned.     *)
(* At a tie (t % 10 = 5) the doubles 0.5 and 0.9 give an exact product; the *)
(* double 0.7 is below 7/10 by 0.4 * 2^-53, so for |reserve| = 10j+5 the    *)
(* product is one ulp below 7j+3.5 when 4j+2 > 2^e, e the binary exponent   *)
(* of 7j+3.5, and the sum keeps that deficit when it lies in no higher      *)
(* binade than the product.                                                 *)
(***************************************************************************)
ProductBelowTie(k) ==
  LET j == k \div 10
  IN  4 * j + 2 > TwoPow(Log2Floor(14 * j + 7) - 1)

\* a round() that rounds every half up
RoundKarvonenHalfUp(resting, reserve, f10) ==
  (10 * resting + f10 * reserve + 5) \div 10

RoundKarvonen(resting, reserve, f10) ==
  LET t == 10 * resting + f10 * reserve
  IN  IF t % 10 # 5 THEN (t + 5) \div 10
      ELSE IF /\ f10 = 7
              /\ ProductBelowTie(Abs(reserve))
              /\ Log2Floor(Abs(t \div 5)) <= Log2Floor(14 * (Abs(reserve) \div 10) + 7)
           THEN IF reserve > 0 THEN (t - 5) \div 10 ELSE (t + 5) \div 10
           ELSE RoundHalfEven2(t \div 5)

(***************************************************************************)
(* round((w2/2) * (a / b)) for integers w2 >= 0, a and b # 0: the shape of  *)
(* round(base_watts * hr_reserve_used), round(met * weight * (d / 60)) and  *)
(* round((count / total) * 100).  n/(2B) is the exact magnitude.  At a tie  *)
(* the quotient a/b is a double with 53 significant bits: rho is the        *)
(* remainder its rounding drops, so it is off by d/(B * 2^s) (upwards when  *)
(* rho is more than half of B), and the product is the tie itself exactly   *)
(* when w2/2 times that error is at most half an ulp of the product.        *)
(***************************************************************************)
\* floor(log2(a / b)) for integers a, b >= 1
RECURSIVE Log2Up(_, _)
Log2Up(a, b) == IF 2 * b <= a THEN 1 + Log2Up(a, 2 * b) ELSE 0

RECURSIVE Log2Down(_, _)
Log2Down(a, b) == IF a < b THEN Log2Down(2 * a, b) - 1 ELSE 0

Log2FloorRat(a, b) == IF a >= b THEN Log2Up(a, b) ELSE Log2Down(a, b)

\* 2^s mod b
RECURSIVE PowMod(_, _)
PowMod(s, b) == IF s <= 0 THEN 1 % b ELSE (2 * PowMod(s - 1, b)) % b

RoundMulDiv(w2, a, b) ==
  LET sg == IF (a >= 0) = (b > 0) THEN 1 ELSE -1
      A == Abs(a)
      B == Abs(b)
      n == w2 * A
  IN  IF n % B # 0 \/ (n \div B) % 2 = 0 THEN (sg * n + B) \div (2 * B)
      ELSE
        LET n2 == n \div B
            eq == Log2FloorRat(A, B)
            rho == ((A % B) * PowMod(52 - eq, B)) % B
            up == 2 * rho > B
            d == IF up THEN B - rho ELSE rho
            ep == Log2FloorRat(n, 2 * B)
            sh == ep - eq
            pow2 == IF ep >= 0 THEN n = 2 * B * TwoPow(ep) ELSE n * TwoPow(-ep) = 2 * B
            lhs == (IF pow2 /\ ~up THEN 2 ELSE 1) * w2 * d
            exact == IF sh >= 0 THEN lhs <= B * TwoPow(sh) ELSE lhs * TwoPow(-sh) <= B
        IN  IF rho = 0 \/ exact THEN RoundHalfEven2(sg * n2)
            ELSE sg * (IF up THEN (n2 + 1) \div 2 ELSE (n2 - 1) \div 2)

(***************************************************************************)
(* __init__                                                                 *)
(***************************************************************************)
NoZones == <<>>

DefaultRestingHR == 60
DefaultMaxHR == 190
DefaultWeightKg == 70

NoCall == [op |-> "__init__"]

(***************************************************************************)
(* BluetoothManager.__init__ (bluetooth_manager.py) with the defaults of    *)
(* its Kivy properties.  client_connected is `self.client is not None and   *)
(* self.client.is_connected`; notifying tells that start_notify has         *)
(* registered _heart_rate_changed on the connected client; simulating that  *)
(* _simulate_hr_update is scheduled on the Kivy clock; tasks holds the      *)
(* position of every asyncio task created by connect() and disconnect()     *)
(* that has not finished.                                                   *)
(***************************************************************************)
NoDevice == ""

BtInit ==
  [connected |-> FALSE, hr_data |-> 0, device_address |-> NoDevice,
   client_connected |-> FALSE, notifying |-> FALSE, simulating |-> FALSE,
   tasks |-> <<>>]

(***************************************************************************)
(* ANTManager.__init__ (ant_manager_final.py).  discovered_devices is the   *)
(* list of device records (the id of a device is its position); listening   *)
(* tells that the channel opened by _connect delivers broadcasts to         *)
(* _on_broadcast_data; pending is the queue of update_hr callbacks handed   *)
(* to Clock.schedule_once; monitors counts the scheduled check_for_hr_data  *)
(* callbacks; threads and scans hold the position of every running          *)
(* _connect and _scan thread, a _scan thread with its local variables, and  *)
(* scans_started counts the _scan threads created (it names them).          *)
(* device_id 0 stands for None.                                             *)
(***************************************************************************)
AntInit ==
  [connected |-> FALSE, hr_data |-> 0, scanning |-> FALSE, running |-> FALSE,
   timeout_occurred |-> FALSE, simulating |-> FALSE,
   discovered_devices |-> <<>>, device_id |-> 0,
   listening |-> FALSE, pending |-> <<>>, monitors |-> 0,
   threads |-> <<>>, scans |-> <<>>, scans_started |-> 0]

(***************************************************************************)
(* HeartRateMonitorApp (main.py): the defaults of its properties and the    *)
(* assignments of build().  active_manager names the manager object.        *)
(* time_points holds workout_seconds (the code stores workout_seconds / 60).*)
(***************************************************************************)
AppInit ==
  [is_connected |-> FALSE, active_manager |-> "bt_manager",
   connection_type |-> "Bluetooth",
   current_hr |-> 0, current_zone |-> 0, current_wattage |-> 0,
   calories_burned |-> 0, is_workout_active |-> FALSE, workout_seconds |-> 0,
   hr_history |-> <<>>, time_points |-> <<>>,
   start_workout_btn |-> "Start Workout", connect_btn |-> "Connect HR Monitor"]

Init ==
  /\ zones = NoZones
  /\ current_zone = 0
  /\ resting_hr = DefaultRestingHR
  /\ max_hr = DefaultMaxHR
  /\ weight_kg = DefaultWeightKg
  /\ call = NoCall
  /\ ret = 0
  /\ exc = ""
  /\ bt = BtInit
  /\ ant = AntInit
  /\ app = AppInit

(***************************************************************************)
(* calculate_zones(age, resting_hr, max_hr=None)                            *)
(***************************************************************************)
\* `if not max_hr: max_hr = 220 - age`: None and 0 are both falsy
\* `if max_hr is None`: a supplied 0 is kept
EffectiveMaxHRNoneOnly(age, maxArg) ==
  IF maxArg = <<>> THEN 220 - age ELSE maxArg[1]

EffectiveMaxHR(age, maxArg) ==
  IF maxArg = <<>> \/ maxArg = <<0>> THEN 220 - age ELSE maxArg[1]

\* zone maxima that are not reduced by 1
ZoneTableNoGap(resting, maxhr) ==
  LET hr_reserve == maxhr - resting
  IN  [i \in 1..5 |->
        [min |-> RoundKarvonen(resting, hr_reserve, 4 + i),
         max |-> IF i < 5 THEN RoundKarvonen(resting, hr_reserve, 5 + i)
                 ELSE maxhr]]

\* zone 5 treated like zones 1-4: its max is round(...) - 1
ZoneTableUniformMax(resting, maxhr) ==
  LET hr_reserve == maxhr - resting
  IN  [i \in 1..5 |->
        [min |-> RoundKarvonen(resting, hr_reserve, 4 + i),
         max |-> RoundKarvonen(resting, hr_reserve, 5 + i) - 1]]

\* fractions of max_hr instead of the Karvonen reserve
ZoneTablePercentOfMax(resting, maxhr) ==
  [i \in 1..5 |->
    [min |-> RoundKarvonen(0, maxhr, 4 + i),
     max |-> IF i < 5 THEN RoundKarvonen(0, maxhr, 5 + i) - 1 ELSE maxhr]]

\* no table for a reserve that is not positive
ZoneTableRejectsDegenerate(resting, maxhr) ==
  LET hr_reserve == maxhr - resting
  IN  IF hr_reserve <= 0 THEN NoZones
      ELSE [i \in 1..5 |->
             [min |-> RoundKarvonen(resting, hr_reserve, 4 + i),
              max |-> IF i < 5 THEN RoundKarvonen(resting, hr_reserve, 5 + i) - 1
                      ELSE maxhr]]

\* two below the next zone's minimum in place of one
ZoneTableWideGap(resting, maxhr) ==
  LET hr_reserve == maxhr - resting
  IN  [i \in 1..5 |->
        [min |-> RoundKarvonen(resting, hr_reserve, 4 + i),
         max |-> IF i < 5 THEN RoundKarvonen(resting, hr_reserve, 5 + i) - 2
                 ELSE maxhr]]

ZoneTable(resting, maxhr) ==
  LET hr_reserve == maxhr - resting
  IN  [i \in 1..5 |->
        [min |-> RoundKarvonen(resting, hr_reserve, 4 + i),
         max |-> IF i < 5 THEN RoundKarvonen(resting, hr_reserve, 5 + i) - 1
                 ELSE maxhr]]

\* resting_hr and max_hr are not stored
CalculateZonesNoStore(age, resting, maxArg) ==
  LET m == EffectiveMaxHR(age, maxArg)
  IN  /\ zones' = ZoneTable(resting, m)
      /\ call' = [op |-> "calculate_zones", age |-> age, resting_hr |-> resting,
                  max_hr |-> maxArg]
      /\ ret' = zones'
      /\ exc' = ""
      /\ UNCHANGED <<resting_hr, max_hr, current_zone, weight_kg>>

\* an absent max_hr falls back on the max_hr stored before
CalculateZonesKeepsMax(age, resting, maxArg) ==
  LET m == IF maxArg = <<>> \/ maxArg = <<0>> THEN max_hr ELSE maxArg[1]
  IN  /\ zones' = ZoneTable(resting, m)
      /\ resting_hr' = resting
      /\ max_hr' = m
      /\ call' = [op |-> "calculate_zones", age |-> age, resting_hr |-> resting,
                  max_hr |-> maxArg]
      /\ ret' = zones'
      /\ exc' = ""
      /\ UNCHANGED <<current_zone, weight_kg>>

CalculateZones(age, resting, maxArg) ==
  LET m == EffectiveMaxHR(age, maxArg)
  IN  /\ zones' = ZoneTable(resting, m)
      /\ resting_hr' = resting
      /\ max_hr' = m
      /\ call' = [op |-> "calculate_zones", age |-> age, resting_hr |-> resting,
                  max_hr |-> maxArg]
      /\ ret' = zones'
      /\ exc' = ""
      /\ UNCHANGED <<current_zone, weight_kg>>

(***************************************************************************)
(* get_zone(hr)                                                             *)
(***************************************************************************)
\* the final else returns 0
ZoneOfElseZero(z, hr) ==
  IF z = NoZones THEN 0
  ELSE IF hr < z[1].min THEN 0
  ELSE IF hr <= z[1].max THEN 1
  ELSE IF hr <= z[2].max THEN 2
  ELSE IF hr <= z[3].max THEN 3
  ELSE IF hr <= z[4].max THEN 4
  ELSE 0

\* no test against zones[1]["min"]
ZoneOfNoBelow(z, hr) ==
  IF z = NoZones THEN 0
  ELSE IF hr <= z[1].max THEN 1
  ELSE IF hr <= z[2].max THEN 2
  ELSE IF hr <= z[3].max THEN 3
  ELSE IF hr <= z[4].max THEN 4
  ELSE 5

\* < in place of <=
ZoneOfStrict(z, hr) ==
  IF z = NoZones THEN 0
  ELSE IF hr < z[1].min THEN 0
  ELSE IF hr < z[1].max THEN 1
  ELSE IF hr < z[2].max THEN 2
  ELSE IF hr < z[3].max THEN 3
  ELSE IF hr < z[4].max THEN 4
  ELSE 5

\* <= in place of < at zones[1]["min"]
ZoneOfExclusiveMin(z, hr) ==
  IF z = NoZones THEN 0
  ELSE IF hr <= z[1].min THEN 0
  ELSE IF hr <= z[1].max THEN 1
  ELSE IF hr <= z[2].max THEN 2
  ELSE IF hr <= z[3].max THEN 3
  ELSE IF hr <= z[4].max THEN 4
  ELSE 5

ZoneOf(z, hr) ==
  IF z = NoZones THEN 0
  ELSE IF hr < z[1].min THEN 0
  ELSE IF hr <= z[1].max THEN 1
  ELSE IF hr <= z[2].max THEN 2
  ELSE IF hr <= z[3].max THEN 3
  ELSE IF hr <= z[4].max THEN 4
  ELSE 5

\* the zone is also kept in current_zone
GetZoneStoresCurrent(hr) ==
  /\ call' = [op |-> "get_zone", hr |-> hr]
  /\ ret' = ZoneOf(zones, hr)
  /\ exc' = ""
  /\ current_zone' = ret'
  /\ UNCHANGED <<zones, resting_hr, max_hr, weight_kg>>

GetZone(hr) ==
  /\ call' = [op |-> "get_zone", hr |-> hr]
  /\ ret' = ZoneOf(zones, hr)
  /\ exc' = ""
  /\ UNCHANGED engine

(***************************************************************************)
(* Outcome of a call: a returned value, or an unhandled exception.          *)
(***************************************************************************)
Returns(v) == [exc |-> "", val |-> v]

Raises(e) == [exc |-> e, val |-> 0]

\* a / b < num / den for den > 0: the comparison `ratio < 0.6` on doubles
\* agrees with the one on the exact ratios (b # 0)
RatioBelow(a, b, num, den) ==
  IF b > 0 THEN a * den < num * b ELSE a * den > num * b

(***************************************************************************)
(* calculate_wattage(hr, weight=70)                                         *)
(***************************************************************************)
\* no early return below resting_hr
WattageNoGuard(resting, maxhr, hr, weight) ==
  IF maxhr - resting = 0 THEN Raises("ZeroDivisionError")
  ELSE Returns(RoundMulDiv(2 * (weight * 3), hr - resting, maxhr - resting))

\* 2 W per kg
WattageTwoPerKg(resting, maxhr, hr, weight) ==
  IF hr < resting THEN Returns(0)
  ELSE IF maxhr - resting = 0 THEN Raises("ZeroDivisionError")
  ELSE Returns(RoundMulDiv(2 * (weight * 2), hr - resting, maxhr - resting))

\* int() in place of round(): the fraction is cut off
WattageTruncated(resting, maxhr, hr, weight) ==
  IF hr < resting THEN Returns(0)
  ELSE IF maxhr - resting = 0 THEN Raises("ZeroDivisionError")
  ELSE Returns((weight * 3 * (hr - resting)) \div (maxhr - resting))

\* the reserve over the reserve used: divides by hr - resting_hr
WattageInverted(resting, maxhr, hr, weight) ==
  IF hr < resting THEN Returns(0)
  ELSE IF hr - resting = 0 THEN Raises("ZeroDivisionError")
  ELSE Returns(RoundMulDiv(2 * (weight * 3), maxhr - resting, hr - resting))

Wattage(resting, maxhr, hr, weight) ==
  IF hr < resting THEN Returns(0)
  ELSE IF maxhr - resting = 0 THEN Raises("ZeroDivisionError")
  ELSE Returns(RoundMulDiv(2 * (weight * 3), hr - resting, maxhr - resting))

CalculateWattage(hr, weight) ==
  LET r == Wattage(resting_hr, max_hr, hr, weight)
  IN  /\ call' = [op |-> "calculate_wattage", hr |-> hr, weight |-> weight]
      /\ ret' = r.val
      /\ exc' = r.exc
      /\ UNCHANGED engine

(***************************************************************************)
(* calculate_calories(hr, duration_minutes, weight=70)                      *)
(***************************************************************************)
\* twice the MET constant (3.5 is one of them) for hr_percent = hr / maxhr
\* `<=` in place of `<`: a ratio on a threshold stays in the lower band
Met2Inclusive(hr, maxhr) ==
  LET AtMost(num) ==
        IF maxhr > 0 THEN 10 * hr <= num * maxhr ELSE 10 * hr >= num * maxhr
  IN  IF AtMost(5) THEN 4
      ELSE IF AtMost(6) THEN 7
      ELSE IF AtMost(7) THEN 10
      ELSE IF AtMost(8) THEN 14
      ELSE IF AtMost(9) THEN 20
      ELSE 24

Met2(hr, maxhr) ==
  IF RatioBelow(hr, maxhr, 5, 10) THEN 4
  ELSE IF RatioBelow(hr, maxhr, 6, 10) THEN 7
  ELSE IF RatioBelow(hr, maxhr, 7, 10) THEN 10
  ELSE IF RatioBelow(hr, maxhr, 8, 10) THEN 14
  ELSE IF RatioBelow(hr, maxhr, 9, 10) THEN 20
  ELSE 24

\* no early return below resting_hr
CaloriesNoGuard(resting, maxhr, hr, duration, weight) ==
  IF maxhr = 0 THEN Raises("ZeroDivisionError")
  ELSE Returns(RoundMulDiv(Met2(hr, maxhr) * weight, duration, 60))

\* hr_percent taken over the reserve, as the other estimators take it
CaloriesOverReserve(resting, maxhr, hr, duration, weight) ==
  IF hr < resting THEN Returns(0)
  ELSE IF maxhr - resting = 0 THEN Raises("ZeroDivisionError")
  ELSE Returns(RoundMulDiv(Met2(hr - resting, maxhr - resting) * weight,
                           duration, 60))

Calories(resting, maxhr, hr, duration, weight) ==
  IF hr < resting THEN Returns(0)
  ELSE IF maxhr = 0 THEN Raises("ZeroDivisionError")
  ELSE Returns(RoundMulDiv(Met2(hr, maxhr) * weight, duration, 60))

CalculateCalories(hr, duration, weight) ==
  LET r == Calories(resting_hr, max_hr, hr, duration, weight)
  IN  /\ call' = [op |-> "calculate_calories", hr |-> hr,
                  duration_minutes |-> duration, weight |-> weight]
      /\ ret' = r.val
      /\ exc' = r.exc
      /\ UNCHANGED engine

(***************************************************************************)
(* calculate_recovery_time(workout_duration_minutes, avg_hr).  The method   *)
(* returns round(x * 2) / 2 hours; ret holds round(x * 2), the number of    *)
(* half hours.  x * 2 is exactly duration * f10 / 300 with f10 = 10 * (1 +  *)
(* recovery_factor); for durations below 150 minutes it is a tie only for   *)
(* f10 = 15, and 1.5 is an exact double.                                    *)
(***************************************************************************)
\* the bands of the MET table (0.6, 0.7, 0.8) in place of 0.6, 0.75, 0.85
RecoveryFactor10MetBands(a, b) ==
  IF RatioBelow(a, b, 60, 100) THEN 12
  ELSE IF RatioBelow(a, b, 70, 100) THEN 13
  ELSE IF RatioBelow(a, b, 80, 100) THEN 15
  ELSE 17

RecoveryFactor10(a, b) ==
  IF RatioBelow(a, b, 60, 100) THEN 12
  ELSE IF RatioBelow(a, b, 75, 100) THEN 13
  ELSE IF RatioBelow(a, b, 85, 100) THEN 15
  ELSE 17

\* an early return below resting_hr, as in calculate_wattage
RecoveryHalfHoursGuarded(resting, maxhr, duration, avg_hr) ==
  IF avg_hr < resting THEN Returns(0)
  ELSE IF maxhr - resting = 0 THEN Raises("ZeroDivisionError")
  ELSE LET f10 == RecoveryFactor10(avg_hr - resting, maxhr - resting)
       IN  IF f10 = 15 THEN Returns(RoundMulDiv(6, duration, 60))
           ELSE Returns((2 * duration * f10 + 300) \div 600)

RecoveryHalfHours(resting, maxhr, duration, avg_hr) ==
  IF maxhr - resting = 0 THEN Raises("ZeroDivisionError")
  ELSE LET f10 == RecoveryFactor10(avg_hr - resting, maxhr - resting)
       IN  IF f10 = 15 THEN Returns(RoundMulDiv(6, duration, 60))
           ELSE Returns((2 * duration * f10 + 300) \div 600)

CalculateRecoveryTime(duration, avg_hr) ==
  LET r == RecoveryHalfHours(resting_hr, max_hr, duration, avg_hr)
  IN  /\ call' = [op |-> "calculate_recovery_time",
                  workout_duration_minutes |-> duration, avg_hr |-> avg_hr]
      /\ ret' = r.val
      /\ exc' = r.exc
      /\ UNCHANGED engine

(***************************************************************************)
(* calculate_zone_distribution(hr_samples): the percentage of the samples   *)
(* in each zone 0..5, round((count / total_samples) * 100).                 *)
(***************************************************************************)
ZoneCount(z, samples, k) ==
  Cardinality({i \in 1..Len(samples) : ZoneOf(z, samples[i]) = k})

\* an empty mapping for no samples
ZoneDistributionEmptyMapping(z, samples) ==
  IF samples = <<>> THEN <<>>
  ELSE [k \in 0..5 |-> RoundMulDiv(200, ZoneCount(z, samples, k), Len(samples))]

\* int() in place of round(): the fraction is cut off
ZoneDistributionTruncated(z, samples) ==
  IF samples = <<>> THEN [k \in 0..5 |-> 0]
  ELSE [k \in 0..5 |-> (100 * ZoneCount(z, samples, k)) \div Len(samples)]

\* zone 5 takes what the other zones leave of 100
ZoneDistributionRemainder(z, samples) ==
  IF samples = <<>> THEN [k \in 0..5 |-> 0]
  ELSE LET pct(k) == RoundMulDiv(200, ZoneCount(z, samples, k), Len(samples))
       IN  [k \in 0..5 |->
              IF k < 5 THEN pct(k)
              ELSE 100 - (pct(0) + pct(1) + pct(2) + pct(3) + pct(4))]

ZoneDistribution(z, samples) ==
  IF samples = <<>> THEN [k \in 0..5 |-> 0]
  ELSE [k \in 0..5 |-> RoundMulDiv(200, ZoneCount(z, samples, k), Len(samples))]

CalculateZoneDistribution(samples) ==
  /\ call' = [op |-> "calculate_zone_distribution", hr_samples |-> samples]
  /\ ret' = ZoneDistribution(zones, samples)
  /\ exc' = ""
  /\ UNCHANGED engine

Next ==
  \/ \E age \in Ages, resting \in RestingHRs, maxArg \in MaxHRArgs :
        EngineOnly(CalculateZones(age, resting, maxArg))
  \/ \E hr \in HeartRates : EngineOnly(GetZone(hr))
  \/ \E hr \in CoarseHeartRates, weight \in Weights : EngineOnly(CalculateWattage(hr, weight))
  \/ \E hr \in CoarseHeartRates, duration \in Durations :
        EngineOnly(CalculateCalories(hr, duration, DefaultWeightKg))
  \/ \E duration \in Durations, avg_hr \in CoarseHeartRates :
        EngineOnly(CalculateRecoveryTime(duration, avg_hr))
  \/ \E samples \in ShortSamples : EngineOnly(CalculateZoneDistribution(samples))

Spec == Init /\ [][Next]_vars

(***************************************************************************)
(* One estimator at a time, over more of its inputs: the profile is set by  *)
(* calculate_zones (ages include the one whose default max_hr is 0).        *)
(***************************************************************************)
SetProfile ==
  \E age \in AllAges, resting \in RestingHRs, maxArg \in MaxHRArgs :
     EngineOnly(CalculateZones(age, resting, maxArg))

NextWattage ==
  \/ SetProfile
  \/ \E hr \in WattHeartRates, weight \in Weights : EngineOnly(CalculateWattage(hr, weight))

SpecWattage == Init /\ [][NextWattage]_vars

NextCalories ==
  \/ SetProfile
  \/ \E hr \in CoarseHeartRates, duration \in CalDurations, weight \in Weights :
        EngineOnly(CalculateCalories(hr, duration, weight))

SpecCalories == Init /\ [][NextCalories]_vars

NextRecovery ==
  \/ SetProfile
  \/ \E duration \in RecDurations, avg_hr \in RecHeartRates :
        EngineOnly(CalculateRecoveryTime(duration, avg_hr))

SpecRecovery == Init /\ [][NextRecovery]_vars

NextDistribution ==
  \/ SetProfile
  \/ \E samples \in RunSamples : EngineOnly(CalculateZoneDistribution(samples))

SpecDistribution == Init /\ [][NextDistribution]_vars

(***************************************************************************)
(* calculate_zones alone, with the small positive reserves as well.         *)
(***************************************************************************)
NextZones ==
  \/ SetProfile
  \/ \E age \in Ages, resting \in RestingHRs, reserve \in 1..ReserveHi :
        EngineOnly(CalculateZones(age, resting, <<resting + reserve>>))

SpecZones == Init /\ [][NextZones]_vars

(***************************************************************************)
(* The application (main.py) observes both managers: build() binds          *)
(* _on_connection_changed to `connected` and _on_hr_data_changed to         *)
(* `hr_data` of bt_manager and of ant_manager.  Kivy calls an observer      *)
(* synchronously inside the assignment, and only when the value changes.    *)
(* Labels, colours, the progress bar and the plot are not part of the       *)
(* state.  The settings inputs keep the texts they are built with.          *)
(***************************************************************************)
SettingsAge == 30
SettingsRestingHR == 60
SettingsMaxHR == 190
SettingsWeight == 70

\* _on_connection_changed(instance, value) without its call of apply_settings
OnConnectionChanged(a, value) ==
  [a EXCEPT !.is_connected = value,
            !.connect_btn = IF value THEN "Disconnect" ELSE "Connect HR Monitor"]

\* _on_hr_data_changed(instance, value)
OnHrDataChanged(a, value) ==
  IF value > 0
  THEN [a EXCEPT !.current_hr = value,
                 !.current_zone = ZoneOf(zones, value),
                 !.current_wattage =
                    Wattage(resting_hr, max_hr, value, SettingsWeight).val]
  ELSE [a EXCEPT !.current_hr = value]

\* apply_settings(None): calculate_zones on the texts of the settings inputs
ApplySettings ==
  CalculateZones(SettingsAge, SettingsRestingHR, <<SettingsMaxHR>>)

(***************************************************************************)
(* One step of a manager from the record old to the record new, with the    *)
(* observers it dispatches: `connected` is assigned before `hr_data`        *)
(* wherever a step assigns both, and no step that sets connected to True    *)
(* assigns hr_data.                                                         *)
(***************************************************************************)
Dispatch(old, new) ==
  LET a1 == IF new.connected # old.connected
            THEN OnConnectionChanged(app, new.connected) ELSE app
      a2 == IF new.hr_data # old.hr_data
            THEN OnHrDataChanged(a1, new.hr_data) ELSE a1
  IN  /\ app' = a2
      /\ IF new.connected /\ ~old.connected
         THEN ApplySettings
         ELSE UNCHANGED <<engine, call, ret, exc>>

(***************************************************************************)
(* Bounds of the sensor managers.                                           *)
(***************************************************************************)
\* asyncio tasks / threads of one manager that have not finished
MaxTasks == 1
\* a reading sent by a sensor
ReadingLo == 100
ReadingHi == 100

\* _simulate_hr_update: randint(base_hr - variation, base_hr + variation),
\* and in one case of ten randint(10, 30) more
SimBaseHR == 70
SimVariation == 10
SimExtraLo == 10
SimExtraHi == 30

Readings == {0} \cup (ReadingLo..ReadingHi)

\* the lowest and the highest value the simulation can produce
SimulatedReadings ==
  {SimBaseHR - SimVariation, SimBaseHR + SimVariation + SimExtraHi}

Device == "AA:BB"

Addresses == {NoDevice, Device}

Outcomes == {"ok", "refused", "error"}

\* the sequence s without its element i
RemoveAt(s, i) == SubSeq(s, 1, i - 1) \o SubSeq(s, i + 1, Len(s))

(***************************************************************************)
(* BluetoothManager (bluetooth_manager.py).  The scan is not modelled:      *)
(* discovered_devices stays empty and connect() is given the address.       *)
(***************************************************************************)
BtStep(b) ==
  /\ bt' = b
  /\ Dispatch(bt, b)
  /\ UNCHANGED ant

\* connect(device_address)
BtConnect(address) ==
  IF bt.connected THEN UNCHANGED vars
  ELSE LET addr == IF address # NoDevice THEN address ELSE bt.device_address
       IN  IF addr = NoDevice THEN UNCHANGED vars
           ELSE /\ Len(bt.tasks) < MaxTasks
                /\ BtStep([bt EXCEPT !.device_address = addr,
                                     !.tasks = Append(@, "_connect")])

\* disconnect()
BtDisconnect ==
  IF ~bt.connected THEN UNCHANGED vars
  ELSE /\ Len(bt.tasks) < MaxTasks
       /\ BtStep([bt EXCEPT !.tasks = Append(@, "_disconnect")])

\* the task _connect() from one await to the next; outcome is that of the
\* awaited call of the client (for connect(): "refused" leaves is_connected
\* False without an exception).  A new BleakClient replaces the client.
BtConnectTask(i, outcome) ==
  LET pc == bt.tasks[i]
      done == RemoveAt(bt.tasks, i)
  IN  /\ pc \in {"_connect", "connect", "start_notify", "read_gatt_char"}
      /\ pc # "connect" => outcome # "refused"
      /\ BtStep(
           CASE pc = "_connect" ->
                  [bt EXCEPT !.client_connected = FALSE, !.notifying = FALSE,
                             !.tasks[i] = "connect"]
             [] pc = "connect" ->
                  IF outcome = "ok"
                  THEN [bt EXCEPT !.client_connected = TRUE,
                                  !.tasks[i] = "start_notify"]
                  ELSE [bt EXCEPT !.tasks = done]
             [] pc = "start_notify" ->
                  IF outcome = "ok"
                  THEN [bt EXCEPT !.notifying = TRUE,
                                  !.tasks[i] = "read_gatt_char"]
                  ELSE [bt EXCEPT !.tasks = done]
             [] pc = "read_gatt_char" ->
                  [bt EXCEPT !.connected = TRUE, !.tasks = done])

\* the task _disconnect()
BtDisconnectTask(i, outcome) ==
  LET pc == bt.tasks[i]
      done == RemoveAt(bt.tasks, i)
      reset == [bt EXCEPT !.connected = FALSE, !.hr_data = 0, !.tasks = done]
  IN  /\ pc \in {"_disconnect", "disconnect"}
      /\ outcome # "refused"
      /\ BtStep(
           CASE pc = "_disconnect" ->
                  IF bt.client_connected
                  THEN [bt EXCEPT !.tasks[i] = "disconnect"]
                  ELSE reset
             [] pc = "disconnect" ->
                  IF outcome = "ok"
                  THEN [reset EXCEPT !.client_connected = FALSE,
                                     !.notifying = FALSE]
                  ELSE [bt EXCEPT !.tasks = done])

\* _heart_rate_changed(sender, data): a notification of the connected client
BtHeartRateChanged(hr) ==
  /\ bt.client_connected
  /\ bt.notifying
  /\ BtStep([bt EXCEPT !.hr_data = hr])

\* create_debug_hr_updates(active)
BtCreateDebugHrUpdates(active) ==
  IF active
  THEN BtStep([bt EXCEPT !.simulating = TRUE, !.connected = TRUE])
  ELSE BtStep([bt EXCEPT !.simulating = FALSE, !.connected = FALSE,
                         !.hr_data = 0])

\* _simulate_hr_update(dt), run by the Kivy clock while it is scheduled
BtSimulateHrUpdate(hr) ==
  /\ bt.simulating
  /\ BtStep([bt EXCEPT !.hr_data = hr])

(***************************************************************************)
(* ANTManager (ant_manager_final.py), with the openant library present      *)
(* (OPENANT_AVAILABLE).  connect() starts the thread _connect; the library  *)
(* calls _on_broadcast_data on its own thread while the channel is open;    *)
(* update_hr and check_for_hr_data run on the main thread when the Kivy     *)
(* clock reaches them.  A statement of a thread is a step of its own        *)
(* wherever another thread can observe the state between two statements.   *)
(***************************************************************************)
\* `hr_value > 0 and hr_value < 240`
HrLimit == 240

\* update_hr callbacks waiting on the Kivy clock
MaxPending == 1

AntReadings == Readings \cup {HrLimit}

ValidReading(hr) == hr > 0 /\ hr < HrLimit

AntStep(a) ==
  /\ ant' = a
  /\ Dispatch(ant, a)
  /\ UNCHANGED bt

\* "Simulated" in device_name, device_name being the name of the discovered
\* device with id _device_id, or "ANT+ HR Monitor <id>" when there is none
DeviceIsSimulated(a) ==
  /\ a.device_id \in DOMAIN a.discovered_devices
  /\ a.discovered_devices[a.device_id].simulated

\* connect(device_id)
AntConnect(device_id) ==
  IF ant.connected THEN UNCHANGED vars
  ELSE LET id == IF device_id # 0 THEN device_id
                 ELSE IF ant.device_id = 0 /\ ant.discovered_devices # <<>>
                      THEN 1
                      ELSE ant.device_id
       IN  IF id = 0 THEN UNCHANGED vars
           ELSE /\ Len(ant.threads) < MaxTasks
                /\ AntStep([ant EXCEPT !.device_id = id,
                                       !.threads = Append(@, "_connect")])

\* the except block of _connect: fall back to the simulation
AntConnectFallback(a) ==
  [a EXCEPT !.simulating = TRUE, !.connected = TRUE]

\* the thread _connect(); outcome "error" is an exception of the library
AntConnectThread(i, outcome) ==
  LET pc == ant.threads[i]
      done == RemoveAt(ant.threads, i)
  IN  /\ outcome \in {"ok", "error"}
      /\ pc \in {"error", "listen"} => outcome = "ok"
      /\ pc = "listen" => ~ant.running
      /\ pc = "name" => DeviceIsSimulated(ant) \/ ant.monitors < MaxTasks
      /\ AntStep(
           CASE pc = "_connect" ->
                  IF outcome = "ok" THEN [ant EXCEPT !.threads[i] = "open"]
                  ELSE [ant EXCEPT !.threads[i] = "error"]
             [] pc = "open" ->
                  IF outcome = "ok"
                  THEN [ant EXCEPT !.listening = TRUE, !.running = TRUE,
                                   !.threads[i] = "name"]
                  ELSE [ant EXCEPT !.threads[i] = "error"]
             [] pc = "name" ->
                  IF DeviceIsSimulated(ant)
                  THEN [ant EXCEPT !.simulating = TRUE, !.connected = TRUE,
                                   !.threads[i] = "connected"]
                  ELSE [ant EXCEPT !.monitors = @ + 1,
                                   !.threads[i] = "connected"]
             [] pc = "connected" ->
                  [ant EXCEPT !.connected = TRUE, !.threads[i] = "listen"]
             [] pc = "listen" -> [ant EXCEPT !.threads = done]
             [] pc = "error" ->
                  AntConnectFallback([ant EXCEPT !.threads = done]))

\* disconnect()
AntDisconnect ==
  IF ~ant.connected THEN UNCHANGED vars
  ELSE AntStep([ant EXCEPT !.running = FALSE, !.simulating = FALSE,
                           !.listening = FALSE, !.connected = FALSE,
                           !.hr_data = 0])

\* _on_broadcast_data(data) with data[7] = hr
AntOnBroadcastData(hr) ==
  /\ ant.listening
  /\ IF ValidReading(hr)
     THEN /\ Len(ant.pending) < MaxPending
          /\ AntStep([ant EXCEPT
                !.pending = Append(@, hr),
                !.timeout_occurred = FALSE,
                !.simulating = IF ant.timeout_occurred THEN FALSE ELSE @])
     ELSE UNCHANGED vars

\* update_hr(dt), the callback scheduled by _on_broadcast_data
AntUpdateHr ==
  /\ ant.pending # <<>>
  /\ AntStep([ant EXCEPT !.hr_data = Head(ant.pending), !.pending = Tail(@)])

\* check_for_hr_data(dt), scheduled by _start_timeout_monitor
AntCheckForHrData ==
  /\ ant.monitors > 0
  /\ IF ant.connected /\ ant.hr_data = 0 /\ ~ant.timeout_occurred
     THEN AntStep([ant EXCEPT !.monitors = @ - 1, !.timeout_occurred = TRUE,
                              !.simulating = TRUE, !.connected = TRUE])
     ELSE AntStep([ant EXCEPT !.monitors = @ - 1])

\* create_debug_hr_updates(active)
AntCreateDebugHrUpdates(active) ==
  IF active
  THEN AntStep([ant EXCEPT !.simulating = TRUE, !.connected = TRUE])
  ELSE AntStep([ant EXCEPT !.simulating = FALSE, !.connected = FALSE,
                           !.hr_data = 0])

\* _simulate_hr_update(dt), run by the Kivy clock while it is scheduled
AntSimulateHrUpdate(hr) ==
  /\ ant.simulating
  /\ AntStep([ant EXCEPT !.hr_data = hr])

(***************************************************************************)
(* ANTManager.start_scan and the thread _scan.  A _scan thread carries its  *)
(* local variables hr_found and hr_data_received and the number of rounds   *)
(* of its waiting loop; the loop ends for good when time.time() reaches the *)
(* timeout, 60 seconds after it began: after ScanTicks rounds here.  The    *)
(* early `self.scanning = False; return` of the thread is followed by its   *)
(* finally block, and another thread can run between the two.               *)
(***************************************************************************)
\* _scan threads started in all
MaxScans == 2
\* rounds of the waiting loop before the time limit
ScanTicks == 2

\* `if hr_data_received >= 5`
ScanReadings == 5
\* `abs(hr_value - ...get('last_hr', 0)) > 5`
DeviceGap == 5
\* 'last_hr' of create_simulated_device()
SimulatedLastHr == 70

ScanHeartRates == AntReadings \cup {ReadingLo + DeviceGap + 1}

ScanOutcomes == {"ok", "none", "error"}

SimulatedDevice == [simulated |-> TRUE, last_hr |-> SimulatedLastHr]

\* start_scan() without `if self.scanning: return False`
AntStartScanUnguarded ==
  /\ ant.scans_started < MaxScans
  /\ ant' = [ant EXCEPT
        !.scanning = TRUE, !.discovered_devices = <<>>,
        !.timeout_occurred = FALSE,
        !.scans_started = @ + 1,
        !.scans = Append(@, [id |-> ant.scans_started + 1, pc |-> "_scan",
                             hr_found |-> FALSE, received |-> 0,
                             ticks |-> 0])]
  /\ call' = [op |-> "start_scan", scanning |-> ant.scanning]
  /\ ret' = TRUE
  /\ exc' = ""
  /\ UNCHANGED <<engine, bt, app>>

\* start_scan(); call.scanning records self.scanning as the call found it
AntStartScan ==
  /\ call' = [op |-> "start_scan", scanning |-> ant.scanning]
  /\ exc' = ""
  /\ UNCHANGED <<engine, bt, app>>
  /\ IF ant.scanning
     THEN /\ ret' = FALSE
          /\ UNCHANGED ant
     ELSE /\ ant.scans_started < MaxScans
          /\ ret' = TRUE
          /\ ant' = [ant EXCEPT
                !.scanning = TRUE, !.discovered_devices = <<>>,
                !.timeout_occurred = FALSE,
                !.scans_started = @ + 1,
                !.scans = Append(@, [id |-> ant.scans_started + 1,
                                     pc |-> "_scan", hr_found |-> FALSE,
                                     received |-> 0, ticks |-> 0])]

\* the waiting loop never gives up on time
ScanWaitNoLimit(t) ==
  IF ant.scanning
  THEN IF t.received >= ScanReadings THEN [t EXCEPT !.pc = "cleanup"]
       ELSE [t EXCEPT !.ticks = IF @ < ScanTicks THEN @ + 1 ELSE @]
  ELSE [t EXCEPT !.pc = "cleanup"]

\* one round of `while time.time() < timeout and self.scanning`
ScanWait(t) ==
  IF t.ticks < ScanTicks /\ ant.scanning
  THEN IF t.received >= ScanReadings THEN [t EXCEPT !.pc = "cleanup"]
       ELSE [t EXCEPT !.ticks = @ + 1]
  ELSE [t EXCEPT !.pc = "cleanup"]

\* the thread _scan(); outcome "none" is no USB stick found, "error" an
\* exception of the library
ScanThread(i, outcome) ==
  LET t == ant.scans[i]
      to(pc) == [ant EXCEPT !.scans[i].pc = pc]
  IN  /\ outcome = "none" => t.pc = "_scan"
      /\ outcome = "error" => t.pc \in {"_scan", "node", "setup"}
      /\ AntStep(
           CASE t.pc = "_scan" ->
                  IF outcome = "ok" THEN to("node")
                  ELSE IF outcome = "none"
                  THEN [to("finally") EXCEPT !.scanning = FALSE]
                  ELSE [to("finally") EXCEPT !.discovered_devices =
                          IF @ = <<>> THEN <<SimulatedDevice>> ELSE @]
             [] t.pc = "node" ->
                  IF outcome = "ok" THEN to("setup")
                  ELSE [to("finally") EXCEPT !.scanning = FALSE]
             [] t.pc = "setup" ->
                  IF outcome = "ok" THEN to("wait")
                  ELSE [to("finally") EXCEPT !.discovered_devices =
                          IF @ = <<>> THEN <<SimulatedDevice>> ELSE @]
             [] t.pc = "wait" -> [ant EXCEPT !.scans[i] = ScanWait(t)]
             [] t.pc = "cleanup" ->
                  [to("finally") EXCEPT !.discovered_devices =
                     IF t.hr_found THEN @ ELSE Append(@, SimulatedDevice)]
             [] t.pc = "finally" ->
                  [ant EXCEPT !.scanning = FALSE,
                              !.scans = RemoveAt(ant.scans, i)])

\* on_device_found(data) with data[7] = hr, called by the library while the
\* channel of the scan is open
ScanOnDeviceFound(i, hr) ==
  LET t == ant.scans[i]
      d == ant.discovered_devices
      new == d = <<>> \/ Abs(hr - d[Len(d)].last_hr) > DeviceGap
  IN  /\ t.pc = "wait"
      /\ IF ant.scanning /\ ValidReading(hr)
         THEN /\ t.received < ScanReadings
              /\ AntStep([ant EXCEPT
                    !.scans[i].received = @ + 1,
                    !.scans[i].hr_found = IF new THEN TRUE ELSE @,
                    !.discovered_devices =
                       IF new
                       THEN Append(@, [simulated |-> FALSE, last_hr |-> hr])
                       ELSE @])
         ELSE UNCHANGED vars

(***************************************************************************)
(* The application's handlers (main.py).                                    *)
(***************************************************************************)
AppOnly(a) ==
  /\ app' = a
  /\ UNCHANGED <<engine, call, ret, exc, bt, ant>>

ActiveConnected ==
  IF app.active_manager = "bt_manager" THEN bt.connected ELSE ant.connected

\* set_connection_type(conn_type)
SetConnectionType(conn_type) ==
  LET active == IF conn_type = "bluetooth" THEN "bt_manager" ELSE "ant_manager"
      isc == IF active = "bt_manager" THEN bt.connected ELSE ant.connected
  IN  AppOnly([app EXCEPT !.connection_type = conn_type,
                          !.active_manager = active,
                          !.connect_btn = IF isc THEN "Disconnect" ELSE "Connect"])

\* every start resets the workout data, a resume as well
ToggleWorkoutAlwaysResets ==
  IF app.is_workout_active
  THEN AppOnly([app EXCEPT !.is_workout_active = FALSE,
                           !.start_workout_btn = "Resume Workout"])
  ELSE AppOnly([app EXCEPT !.is_workout_active = TRUE,
                           !.start_workout_btn = "Pause Workout",
                           !.hr_history = <<>>,
                           !.time_points = <<>>,
                           !.workout_seconds = 0,
                           !.calories_burned = 0])

\* toggle_workout(instance)
ToggleWorkout ==
  IF app.is_workout_active
  THEN AppOnly([app EXCEPT !.is_workout_active = FALSE,
                           !.start_workout_btn = "Resume Workout"])
  ELSE LET started == [app EXCEPT !.is_workout_active = TRUE,
                                  !.start_workout_btn = "Pause Workout"]
       IN  IF app.workout_seconds = 0
           THEN AppOnly([started EXCEPT !.hr_history = <<>>,
                                        !.time_points = <<>>,
                                        !.workout_seconds = 0,
                                        !.calories_burned = 0])
           ELSE AppOnly(started)

\* stop_workout(instance)
StopWorkout ==
  AppOnly([app EXCEPT !.is_workout_active = FALSE,
                      !.workout_seconds = 0,
                      !.start_workout_btn = "Start Workout"])

\* a workout of at most this many seconds
MaxSeconds == 3

\* calculate_calories(hr, seconds / 60, weight): round(MET * weight *
\* seconds / 3600); seconds / 60 and the product are rounded doubles, and
\* below 252 seconds the result is the one of the exact value (ties to even)
CaloriesAtSeconds(hr, seconds, weight) ==
  IF hr < resting_hr THEN 0
  ELSE LET n == Met2(hr, max_hr) * weight * seconds
       IN  IF n % 7200 = 3600 THEN RoundHalfEven2(n \div 3600)
           ELSE (n + 3600) \div 7200

\* update(dt), scheduled every second; auto_mode stays False
Update ==
  IF ~app.is_workout_active THEN UNCHANGED vars
  ELSE LET seconds == app.workout_seconds + 1
           graphed == IF app.current_hr > 0
                      THEN [app EXCEPT !.hr_history = Append(@, app.current_hr),
                                       !.time_points = Append(@, seconds)]
                      ELSE app
       IN  /\ app.workout_seconds < MaxSeconds
           /\ AppOnly([graphed EXCEPT
                 !.workout_seconds = seconds,
                 !.calories_burned =
                    CaloriesAtSeconds(app.current_hr, seconds, SettingsWeight)])

\* toggle_debug_mode(instance, value) with value = 'down' for enable
ToggleDebugModeBt(enable) ==
  /\ app.active_manager = "bt_manager"
  /\ BtCreateDebugHrUpdates(enable)

ToggleDebugModeAnt(enable) ==
  /\ app.active_manager = "ant_manager"
  /\ AntCreateDebugHrUpdates(enable)

ToggleDebugMode(enable) ==
  ToggleDebugModeBt(enable) \/ ToggleDebugModeAnt(enable)

(***************************************************************************)
(* The workout lifecycle, with the simulated readings of the Bluetooth      *)
(* manager as the source of heart rates.                                    *)
(***************************************************************************)
NextWorkout ==
  \/ ToggleWorkout
  \/ StopWorkout
  \/ Update
  \/ \E enable \in BOOLEAN : ToggleDebugModeBt(enable)
  \/ \E hr \in SimulatedReadings : BtSimulateHrUpdate(hr)

SpecWorkout == Init /\ [][NextWorkout]_vars

(***************************************************************************)
(* Both managers under the application: the user switches the connection   *)
(* type, connects and disconnects a manager and toggles the debug mode,     *)
(* while tasks, threads, sensors and clock callbacks take their steps.      *)
(***************************************************************************)
NextSensors ==
  \/ \E conn_type \in {"bluetooth", "ant"} : SetConnectionType(conn_type)
  \/ \E enable \in BOOLEAN : ToggleDebugMode(enable)
  \/ \E address \in Addresses : BtConnect(address)
  \/ BtDisconnect
  \/ \E i \in 1..MaxTasks, outcome \in Outcomes :
        i <= Len(bt.tasks) /\ BtConnectTask(i, outcome)
  \/ \E i \in 1..MaxTasks, outcome \in Outcomes :
        i <= Len(bt.tasks) /\ BtDisconnectTask(i, outcome)
  \/ \E hr \in Readings : BtHeartRateChanged(hr)
  \/ \E hr \in SimulatedReadings : BtSimulateHrUpdate(hr)
  \/ \E device_id \in 0..1 : AntConnect(device_id)
  \/ AntDisconnect
  \/ \E i \in 1..MaxTasks, outcome \in Outcomes :
        i <= Len(ant.threads) /\ AntConnectThread(i, outcome)
  \/ \E hr \in AntReadings : AntOnBroadcastData(hr)
  \/ AntUpdateHr
  \/ AntCheckForHrData
  \/ \E hr \in SimulatedReadings : AntSimulateHrUpdate(hr)

SpecSensors == Init /\ [][NextSensors]_vars

(***************************************************************************)
(* The ANT+ scan.  Every _scan thread is a thread of the operating system:  *)
(* it is given the processor again and again until it returns, and the      *)
(* calls of the library it makes return or raise.                           *)
(***************************************************************************)
ScanThreadStep(i) ==
  \E outcome \in ScanOutcomes : i <= Len(ant.scans) /\ ScanThread(i, outcome)

NextScan ==
  \/ AntStartScan
  \/ \E i \in 1..MaxScans : ScanThreadStep(i)
  \/ \E i \in 1..MaxScans, hr \in ScanHeartRates :
        i <= Len(ant.scans) /\ ScanOnDeviceFound(i, hr)

SpecScan == Init /\ [][NextScan]_vars

SpecScanFair == SpecScan /\ \A i \in 1..MaxScans : WF_vars(ScanThreadStep(i))

(***************************************************************************)
(* Properties.                                                              *)
(***************************************************************************)
IsCalculateZones == call.op = "calculate_zones"

IsGetZone == call.op = "get_zone"

IsWattage == call.op = "calculate_wattage"

\* maxHR of the profile passed to the last calculate_zones, read as the
\* statement reads it: the supplied value, 220 - age when none is supplied
ProfileMaxHR == IF call.max_hr = <<>> THEN 220 - call.age ELSE call.max_hr[1]

\* a Profile of the data model: age, restingHR > 0; maxHR > 0 or absent
IsProfile ==
  /\ call.age > 0
  /\ call.resting_hr > 0
  /\ (call.max_hr = <<>> \/ call.max_hr[1] > 0)

\* t/10 rounded to the nearest integer in exact arithmetic, halves to even
NearestEven10(t) ==
  LET fl == t \div 10
      fr == t % 10
  IN  IF fr < 5 THEN fl
      ELSE IF fr > 5 THEN fl + 1
      ELSE IF fl % 2 = 0 THEN fl ELSE fl + 1

\* C1: for a profile with maxHR > restingHR the table calculate_zones
\* returns is contiguous: zone[i].max + 1 = zone[i+1].min for i in 1..4.
C1_Contiguous ==
  (IsCalculateZones /\ max_hr > resting_hr)
    => \A i \in 1..4 : ret[i].max + 1 = ret[i + 1].min

C1_Witness ==
  /\ IsCalculateZones
  /\ max_hr > resting_hr
  /\ (max_hr - resting_hr) % 10 = 5
  /\ \A i \in 1..4 : ret[i].max + 1 = ret[i + 1].min

\* C2: for every profile the returned table has zone[5].max = maxHR (the
\* supplied value, or 220 - age when none is supplied) and zone[1].min =
\* round(restingHR + 0.5 * (maxHR - restingHR)), i.e. (restingHR + maxHR)/2
\* rounded half to even.
C2_Ends ==
  (IsCalculateZones /\ IsProfile)
    => /\ ret[5].max = ProfileMaxHR
       /\ ret[1].min = NearestEven10(5 * (call.resting_hr + ProfileMaxHR))

C2_Witness ==
  /\ IsCalculateZones
  /\ IsProfile
  /\ call.max_hr = <<>>
  /\ (call.resting_hr + ProfileMaxHR) % 2 = 1
  /\ ret[5].max = 220 - call.age

\* C3: zone[i].min = round(restingHR + reserve * lo_i) for i in 1..5 and
\* zone[i].max = round(restingHR + reserve * hi_i) - 1 for i in 1..4, with
\* the fractions 0.5 .. 1.0 and reserve = maxHR - restingHR; age 30,
\* restingHR 60, maxHR 190 gives zone1 = {125, 137}, zone5 = {177, 190}.
C3_Formula ==
  IsCalculateZones
    => /\ \A i \in 1..5 :
            ret[i].min =
              NearestEven10(10 * resting_hr + (4 + i) * (max_hr - resting_hr))
       /\ \A i \in 1..4 :
            ret[i].max =
              NearestEven10(10 * resting_hr + (5 + i) * (max_hr - resting_hr)) - 1
       /\ (call.age = 30 /\ call.resting_hr = 60 /\ call.max_hr = <<190>>)
            => /\ ret[1] = [min |-> 125, max |-> 137]
               /\ ret[5] = [min |-> 177, max |-> 190]

C3_Witness ==
  /\ IsCalculateZones
  /\ call.age = 30 /\ call.resting_hr = 60 /\ call.max_hr = <<190>>
  /\ ret[1] = [min |-> 125, max |-> 137]
  /\ ret[5] = [min |-> 177, max |-> 190]

C5_Monotonic ==
  [][(IsGetZone /\ call'.op = "get_zone" /\ zones' = zones /\ call.hr <= call'.hr)
       => ret <= ret']_vars

C5_Witness ==
  /\ IsGetZone
  /\ zones # NoZones
  /\ max_hr < resting_hr
  /\ call.hr >= zones[1].min
  /\ ret = 5

\* C6: get_zone returns 0 for every hr while the table is empty and 0
\* whenever hr < zone[1].min; its result is in 0..5.
C6_ZeroBelow ==
  IsGetZone
    => /\ ret \in 0..5
       /\ exc = ""
       /\ zones = NoZones => ret = 0
       /\ (zones # NoZones /\ call.hr < zones[1].min) => ret = 0

C6_Witness ==
  /\ IsGetZone
  /\ zones # NoZones
  /\ call.hr = zones[1].min - 1
  /\ ret = 0

\* C7: with a calculated table and hr >= zone[1].min, get_zone returns the
\* smallest i in 1..4 with hr <= zone[i].max, and 5 when there is none, also
\* for hr above zone[5].max.
C7_SmallestIndex ==
  (IsGetZone /\ zones # NoZones /\ call.hr >= zones[1].min)
    => LET S == {i \in 1..4 : call.hr <= zones[i].max}
       IN  IF S = {} THEN ret = 5
           ELSE ret \in S /\ \A i \in S : ret <= i

C7_Witness ==
  /\ IsGetZone
  /\ zones # NoZones
  /\ call.hr > zones[5].max
  /\ max_hr > resting_hr
  /\ ret = 5

\* the engine holds the table of restingHR 60, maxHR 190 and get_zone(150)
\* was called
C8_Case ==
  /\ IsGetZone
  /\ zones # NoZones
  /\ resting_hr = 60
  /\ max_hr = 190
  /\ call.hr = 150

\* C8 as stated: after calculate_zones with restingHR 60 and maxHR 190,
\* get_zone(150) returns 4.
C8_ZoneFour == C8_Case => ret = 4

\* C8 amended: after calculate_zones with restingHR 60 and maxHR 190,
\* get_zone(150) returns 2 (zone 2 is 138..150, zone 4 is 164..176).
C8_ZoneTwo ==
  C8_Case
    => /\ ret = 2
       /\ zones[2] = [min |-> 138, max |-> 150]
       /\ zones[4] = [min |-> 164, max |-> 176]

C8_Witness == C8_Case /\ ret = 2

\* a calculate_wattage, calculate_calories or calculate_recovery_time call
\* on an engine whose calculate_zones was never called
C9_Case ==
  /\ zones = NoZones
  /\ call.op \in {"calculate_wattage", "calculate_calories", "calculate_recovery_time"}

\* C9 as stated: before calculate_zones has ever been called the three
\* estimators return zero-valued outputs for every input and never raise.
C9_ZeroOutputs == C9_Case => (exc = "" /\ ret = 0)

\* C9 amended: before calculate_zones has ever been called the three
\* estimators never raise and compute with the default profile (resting 60,
\* max 190): wattage and calories are 0 for hr < 60, and for hr >= 60 the
\* wattage is 3 * weight * (hr - 60) / 130 rounded to a nearest integer.
C9_DefaultProfile ==
  C9_Case
    => /\ exc = ""
       /\ resting_hr = 60 /\ max_hr = 190
       /\ ret >= 0
       /\ (call.op # "calculate_recovery_time" /\ call.hr < 60) => ret = 0
       /\ (IsWattage /\ call.hr >= 60)
            => Abs(130 * ret - 3 * call.weight * (call.hr - 60)) <= 65

C9_Witness == C9_Case /\ IsWattage /\ call.hr > 60 /\ ret > 0 /\ exc = ""

\* C10: calculate_wattage(hr, weight) returns 0 for every hr below the
\* stored resting_hr, for any weight.
C10_ZeroBelowResting ==
  (IsWattage /\ call.hr < resting_hr) => (ret = 0 /\ exc = "")

C10_Witness ==
  /\ IsWattage
  /\ zones # NoZones
  /\ max_hr = resting_hr
  /\ call.hr = resting_hr - 1
  /\ ret = 0
  /\ exc = ""

(***************************************************************************)
(* The estimators.                                                          *)
(***************************************************************************)
IsCalories == call.op = "calculate_calories"

IsRecovery == call.op = "calculate_recovery_time"

IsDistribution == call.op = "calculate_zone_distribution"

\* n/d (d > 0) rounded to the nearest integer in exact arithmetic: halves to
\* the even neighbour, or halves upwards
NearestEven(n, d) ==
  LET fl == n \div d
      rem2 == 2 * (n - fl * d)
  IN  IF rem2 < d THEN fl
      ELSE IF rem2 > d THEN fl + 1
      ELSE IF fl % 2 = 0 THEN fl ELSE fl + 1

NearestUp(n, d) == (2 * n + d) \div (2 * d)

\* calculate_wattage at or above resting_hr with a positive reserve
C11_Case == IsWattage /\ call.hr >= resting_hr /\ max_hr > resting_hr

\* C11 as stated: calculate_wattage equals round(3 * weight * (hr - restingHR)
\* / (maxHR - restingHR)), round() read as either rounding of the exact value
\* (halves to even, or halves upwards).
C11_ExactRound ==
  C11_Case =>
    LET n == 3 * call.weight * (call.hr - resting_hr)
        d == max_hr - resting_hr
    IN  exc = "" /\ ret \in {NearestEven(n, d), NearestUp(n, d)}

\* C11 (amended): for hr >= restingHR and maxHR > restingHR, calculate_wattage
\* returns an integer at most one half away from 3 * weight * (hr - restingHR)
\* / (maxHR - restingHR); hr=125, weight=70, restingHR=60, maxHR=190 gives 105.
C11_NearestInteger ==
  C11_Case =>
    LET n == 3 * call.weight * (call.hr - resting_hr)
        d == max_hr - resting_hr
    IN  /\ exc = ""
        /\ Abs(2 * d * ret - 2 * n) <= d
        /\ (resting_hr = 60 /\ max_hr = 190 /\ call.hr = 125 /\ call.weight = 70)
             => ret = 105

\* an exact half, 227.5, that comes back as 227: neither rounding of it
C11_Witness ==
  /\ C11_Case
  /\ resting_hr = 59 /\ max_hr = 191 /\ call.hr = 202 /\ call.weight = 70
  /\ ret = 227 /\ exc = ""

\* C12: calculate_calories returns 0 for every hr < restingHR, and for fixed
\* hr >= restingHR and fixed weight > 0 a call with a duration at least as long
\* as the previous call's returns at least as many calories.
C12_ZeroAndMonotone ==
  [][ call'.op = "calculate_calories" =>
        /\ call'.hr < resting_hr' => (ret' = 0 /\ exc' = "")
        /\ ( /\ call.op = "calculate_calories"
             /\ exc = "" /\ exc' = ""
             /\ call.hr = call'.hr /\ call.weight = call'.weight
             /\ call.hr >= resting_hr /\ call.weight > 0
             /\ call.duration_minutes <= call'.duration_minutes )
           => ret <= ret' ]_vars

C12_Witness ==
  /\ IsCalories
  /\ call.hr >= resting_hr /\ max_hr > resting_hr
  /\ call.duration_minutes = DurStep * DurCount
  /\ ret > 0 /\ exc = ""

\* twice the MET constant as the statement selects it from hr / maxHR
ClaimMet2(hr, maxhr) ==
  IF 10 * hr < 5 * maxhr THEN 4
  ELSE IF 10 * hr < 6 * maxhr THEN 7
  ELSE IF 10 * hr < 7 * maxhr THEN 10
  ELSE IF 10 * hr < 8 * maxhr THEN 14
  ELSE IF 10 * hr < 9 * maxhr THEN 20
  ELSE 24

\* calculate_calories at or above resting_hr, max_hr positive
C13_Case == IsCalories /\ call.hr >= resting_hr /\ max_hr > 0

\* C13 as stated: calculate_calories equals round(MET * weight * duration / 60),
\* round() read as either rounding of the exact value.
C13_ExactRound ==
  C13_Case =>
    LET n == ClaimMet2(call.hr, max_hr) * call.weight * call.duration_minutes
    IN  exc = "" /\ ret \in {NearestEven(n, 120), NearestUp(n, 120)}

\* C13 (amended): for hr >= restingHR (maxHR > 0), calculate_calories returns an
\* integer at most one half away from MET * weight * durationMinutes / 60, MET
\* chosen from hr/maxHR by the first matching threshold (<0.5: 2, <0.6: 3.5,
\* <0.7: 5, <0.8: 7, <0.9: 10, otherwise 12; a ratio on a threshold falls in
\* the higher band).
C13_NearestInteger ==
  C13_Case =>
    LET n == ClaimMet2(call.hr, max_hr) * call.weight * call.duration_minutes
    IN  exc = "" /\ Abs(120 * ret - n) <= 60

\* hr/maxHR exactly 0.8 (MET 10); 241.5 comes back as 241
C13_Witness ==
  /\ C13_Case
  /\ 10 * call.hr = 8 * max_hr
  /\ call.weight = 69 /\ call.duration_minutes = 21
  /\ ret = 241 /\ exc = ""

\* ten times 1 + f, f as the statement selects it from the intensity a / b
ClaimFactor10(a, b) ==
  IF RatioBelow(a, b, 60, 100) THEN 12
  ELSE IF RatioBelow(a, b, 75, 100) THEN 13
  ELSE IF RatioBelow(a, b, 85, 100) THEN 15
  ELSE 17

\* C14: calculate_recovery_time equals round((duration/60) * (1 + f) * 2) / 2,
\* f chosen from the intensity (avgHR - restingHR)/(maxHR - restingHR): 0.2 if
\* < 0.6, 0.3 if < 0.75, 0.5 if < 0.85, else 0.7; ret counts the half hours, so
\* the result is an integer multiple of 0.5 hours.
C14_HalfHours ==
  (IsRecovery /\ max_hr # resting_hr) =>
    LET f10 == ClaimFactor10(call.avg_hr - resting_hr, max_hr - resting_hr)
    IN  /\ exc = ""
        /\ ret \in Int
        /\ ret = NearestEven(call.workout_duration_minutes * f10, 300)

\* intensity in [0.75, 0.85), 30 minutes: 0.5 * 1.5 * 2 = 1.5 rounds to 2
C14_Witness ==
  /\ IsRecovery
  /\ max_hr > resting_hr
  /\ ClaimFactor10(call.avg_hr - resting_hr, max_hr - resting_hr) = 15
  /\ call.workout_duration_minutes = 30
  /\ ret = 2 /\ exc = ""

\* C15: calculate_zone_distribution on an empty sample sequence returns exactly
\* {0:0, 1:0, 2:0, 3:0, 4:0, 5:0}, whether or not a zone table has been
\* calculated.
C15_EmptySamples ==
  (IsDistribution /\ call.hr_samples = <<>>) =>
    (exc = "" /\ ret = [k \in 0..5 |-> 0])

C15_Witness ==
  /\ IsDistribution
  /\ call.hr_samples = <<>>
  /\ zones # NoZones
  /\ ret = [k \in 0..5 |-> 0]

\* the number of samples of the last call that get_zone puts in zone k
SamplesIn(k) == ZoneCount(zones, call.hr_samples, k)

C16_Case == IsDistribution /\ call.hr_samples # <<>>

\* all samples in one zone: that zone gets 100 and the others 0
C16_OneZone ==
  \A k \in 0..5 :
    SamplesIn(k) = Len(call.hr_samples) =>
      \A j \in 0..5 : ret[j] = IF j = k THEN 100 ELSE 0

\* C16 as stated: the value for zone z is round(100 * count_z / n), round() read
\* as either rounding of the exact value.
C16_ExactRound ==
  C16_Case =>
    /\ DOMAIN ret = 0..5
    /\ \A k \in 0..5 :
         ret[k] \in {NearestEven(100 * SamplesIn(k), Len(call.hr_samples)),
                     NearestUp(100 * SamplesIn(k), Len(call.hr_samples))}
    /\ C16_OneZone

\* C16 (amended): for a non-empty sample sequence the result has exactly the
\* keys 0..5, the value for zone z is an integer at most one half away from
\* 100 * count_z / n, and when all samples fall in one zone that zone gets 100
\* and the others 0.
C16_NearestInteger ==
  C16_Case =>
    /\ exc = ""
    /\ DOMAIN ret = 0..5
    /\ \A k \in 0..5 :
         Abs(2 * Len(call.hr_samples) * ret[k] - 200 * SamplesIn(k))
           <= Len(call.hr_samples)
    /\ C16_OneZone

\* 23 of 40 samples in one zone: 57.5 comes back as 57
C16_Witness ==
  /\ C16_Case
  /\ Len(call.hr_samples) = 40
  /\ \E k \in 0..5 : SamplesIn(k) = 23 /\ ret[k] = 57

\* the sum of the six percentages returned
PercentSum == ret[0] + ret[1] + ret[2] + ret[3] + ret[4] + ret[5]

\* three samples, one in each of three zones, under a valid profile
C17_Case ==
  /\ IsDistribution
  /\ max_hr > resting_hr /\ resting_hr > 0
  /\ Len(call.hr_samples) = 3
  /\ \A k \in 0..5 : SamplesIn(k) <= 1

\* C17: the six percentages are not guaranteed to sum to 100: three samples in
\* three different zones (valid profile) give 33 + 33 + 33 = 99.
C17_ThirdsSumTo99 == C17_Case => (exc = "" /\ PercentSum = 99)

C17_Witness == C17_Case /\ PercentSum # 100

\* C18: when the stored maxHR equals the stored restingHR (zero reserve),
\* calculate_wattage with hr >= restingHR and calculate_recovery_time with any
\* avgHR end in an unhandled division-by-zero error.
C18_ZeroReserveRaises ==
  ( /\ max_hr = resting_hr
    /\ \/ IsWattage /\ call.hr >= resting_hr
       \/ IsRecovery )
  => exc = "ZeroDivisionError"

\* recovery with an average below resting_hr: no guard comes before the division
C18_Witness ==
  /\ IsRecovery
  /\ max_hr = resting_hr
  /\ call.avg_hr < resting_hr
  /\ exc = "ZeroDivisionError"

\* calculate_calories at or above resting_hr on a zero reserve
C19_Case == IsCalories /\ max_hr = resting_hr /\ call.hr >= resting_hr

\* C19 as stated: with maxHR == restingHR and hr >= restingHR calculate_calories
\* hits a division by zero.
C19_RaisesAtZeroReserve == C19_Case => exc = "ZeroDivisionError"

\* C19 (amended): calculate_calories divides by maxHR alone: it ends in a
\* division by zero exactly when hr >= restingHR and the stored maxHR is 0, and
\* returns a value otherwise, also when maxHR equals restingHR.
C19_RaisesOnlyAtZeroMax ==
  IsCalories =>
    /\ exc \in {"", "ZeroDivisionError"}
    /\ exc = "ZeroDivisionError" <=> (call.hr >= resting_hr /\ max_hr = 0)

C19_Witness == C19_Case /\ call.duration_minutes > 0 /\ exc = "" /\ ret > 0

\* C20: calculate_zones has no error outcome: for every age, restingHR and
\* maxHR (maxHR <= restingHR included) it returns a table with exactly the
\* five entries 1..5, each holding a min and a max.
C20_AlwaysFiveZones ==
  IsCalculateZones =>
    /\ exc = ""
    /\ DOMAIN ret = 1..5
    /\ \A i \in 1..5 :
         /\ DOMAIN ret[i] = {"min", "max"}
         /\ ret[i].min \in Int
         /\ ret[i].max \in Int

\* a supplied maxHR that is not above restingHR
C20_Witness ==
  /\ IsCalculateZones
  /\ call.max_hr # <<>>
  /\ max_hr = call.max_hr[1]
  /\ max_hr <= resting_hr
  /\ DOMAIN ret = 1..5
  /\ exc = ""

(***************************************************************************)
(* The engine as a whole.                                                   *)
(***************************************************************************)
Queries ==
  {"get_zone", "calculate_wattage", "calculate_calories",
   "calculate_recovery_time", "calculate_zone_distribution"}

\* a query on a valid stored profile
C21_Case == call.op \in Queries /\ max_hr > resting_hr /\ resting_hr > 0

\* C21: with a valid stored profile (maxHR > restingHR > 0) no engine operation
\* raises, whatever the heart rate: negative, 0 or far above maxHR.
C21_NoRaise == C21_Case => exc = ""

\* a negative average heart rate given to calculate_recovery_time
C21_Witness ==
  /\ C21_Case
  /\ IsRecovery
  /\ call.avg_hr < 0
  /\ call.workout_duration_minutes > 0
  /\ exc = ""

C23_Frame ==
  [][ /\ call'.op \in Queries => UNCHANGED engine
      /\ call'.op = "calculate_zones" => UNCHANGED <<weight_kg, current_zone>>
    ]_vars

\* a query answered on a calculated table, the engine still as __init__ and
\* calculate_zones left it
C23_Witness ==
  /\ IsGetZone
  /\ zones # NoZones
  /\ ret > 0
  /\ current_zone = 0 /\ weight_kg = DefaultWeightKg

NoDegenerateZone(z) ==
  /\ \A i \in 1..5 : z[i].min <= z[i].max
  /\ \A i \in 1..4 : z[i].min < z[i + 1].min

\* C25 as stated: for every profile with maxHR > restingHR the table has no
\* degenerate zone.
C25_NoDegenerate ==
  (IsCalculateZones /\ max_hr > resting_hr) => NoDegenerateZone(ret)

\* C25 (amended): for every profile with maxHR - restingHR >= 10 the table has
\* no degenerate zone; a positive reserve below 9 always gives one.
C25_ReserveTenUp ==
  IsCalculateZones =>
    /\ max_hr - resting_hr >= 10 => NoDegenerateZone(ret)
    /\ (max_hr > resting_hr /\ max_hr - resting_hr < 9) => ~NoDegenerateZone(ret)

\* the smallest reserve that is sound
C25_Witness ==
  /\ IsCalculateZones
  /\ max_hr - resting_hr = 10
  /\ NoDegenerateZone(ret)

\* C26: after calculate_zones for a profile with maxHR > restingHR, every hr
\* with zone[i].min <= hr <= zone[i].max is classified i by get_zone.
C26_ClassifierAgrees ==
  (IsGetZone /\ zones # NoZones /\ max_hr > resting_hr) =>
    \A i \in 1..5 :
      (zones[i].min <= call.hr /\ call.hr <= zones[i].max) => ret = i

\* a heart rate on the lower boundary of zone 1
C26_Witness ==
  /\ IsGetZone
  /\ zones # NoZones
  /\ max_hr > resting_hr
  /\ call.hr = zones[1].min /\ call.hr <= zones[1].max
  /\ ret = 1

(***************************************************************************)
(* C29.  In the workout lifecycle workout_seconds changes only by +1 in an  *)
(* update tick taken while is_workout_active is True, or by a reset to 0 in *)
(* stop_workout; pausing and resuming through toggle_workout leave          *)
(* workout_seconds and hr_history unchanged; hr_history and time_points     *)
(* have the same length in every state.  A pause is a toggle_workout of an  *)
(* active workout, a resume one of a paused workout (the button reads       *)
(* 'Resume Workout').                                                       *)
(***************************************************************************)
C29_Tick ==
  /\ app.is_workout_active
  /\ app'.is_workout_active
  /\ app'.workout_seconds = app.workout_seconds + 1

C29_Stop ==
  /\ ~app'.is_workout_active
  /\ app'.workout_seconds = 0
  /\ app'.start_workout_btn = "Start Workout"

C29_PauseOrResume ==
  \/ app.is_workout_active /\ ~app'.is_workout_active
       /\ app'.start_workout_btn = "Resume Workout"
  \/ ~app.is_workout_active /\ app'.is_workout_active
       /\ app.start_workout_btn = "Resume Workout"

C29_WorkoutClock ==
  [][ /\ app'.workout_seconds # app.workout_seconds => C29_Tick \/ C29_Stop
      /\ C29_PauseOrResume =>
            /\ app'.workout_seconds = app.workout_seconds
            /\ app'.hr_history = app.hr_history
      /\ Len(app.hr_history) = Len(app.time_points)
      /\ Len(app'.hr_history) = Len(app'.time_points) ]_vars

\* a workout paused after two ticks, the second with a reading recorded
C29_Witness ==
  /\ ~app.is_workout_active
  /\ app.start_workout_btn = "Resume Workout"
  /\ app.workout_seconds = 2
  /\ Len(app.hr_history) = 1
  /\ app.time_points = <<2>>

(***************************************************************************)
(* C27.  In both sensor managers hr_data is 0 whenever connected is False,  *)
(* under every interleaving of connect, disconnect, sensor notifications    *)
(* and scheduled main-thread callbacks.                                     *)
(***************************************************************************)
C27_SilentWhileDisconnected ==
  /\ ~bt.connected => bt.hr_data = 0
  /\ ~ant.connected => ant.hr_data = 0

(***************************************************************************)
(* C28.  The application's is_connected equals the connected state of the   *)
(* currently active manager after any sequence of set_connection_type,      *)
(* connect, disconnect and debug-mode toggles.                              *)
(***************************************************************************)
C28_FlagOfActiveManager == app.is_connected = ActiveConnected

(***************************************************************************)
(* C30.  ANTManager.start_scan called while a scan is in progress (the      *)
(* manager's `scanning` is True) starts no second scan thread and returns   *)
(* False; and every scan thread that was started ends, with scanning False  *)
(* at its end, on every path: no USB stick, node error, exception, five     *)
(* readings received, or the time limit.                                    *)
(***************************************************************************)
ScanAlive(id) == \E i \in DOMAIN ant.scans : ant.scans[i].id = id

C30_NoSecondScan ==
  [][ /\ ant'.scans_started # ant.scans_started =>
            ~ant.scanning /\ call'.op = "start_scan" /\ ret' = TRUE
      /\ Len(ant'.scans) <= Len(ant.scans) + 1
      /\ call'.op = "start_scan" /\ call'.scanning => ret' = FALSE ]_vars

C30_EndsNotScanning ==
  [][ \A id \in 1..MaxScans :
        ScanAlive(id) /\ ~ScanAlive(id)' => ~ant'.scanning ]_vars

====
